---- MODULE Spec2Model ----
(***************************************************************************)
(* A model of BodySystemCUDA<T> (5_Simulations/nbody/bodysystemcuda_impl.h) *)
(* as a state machine: the object's fields, the platform resources it      *)
(* acquires and releases (host buffers, device buffers, render buffers,    *)
(* interop registrations, events), the contents of its buffers, and one    *)
(* action per public operation.                                            *)
(*                                                                         *)
(* Buffer contents are abstracted to one token per buffer (the whole array *)
(* of numBodies*4 scalars); the capacity of each buffer, in bodies, is     *)
(* kept so that a transfer of the wrong length shows.                      *)
(***************************************************************************)
EXTENDS Integers, Sequences, FiniteSets

(***************************************************************************)
(* Bounds of the model.                                                    *)
(***************************************************************************)
MaxDevices == 2      \* devices installed in the machine
MaxSms == 1          \* multiprocessors per device: 1..MaxSms
MaxBodies == 1025    \* body counts of the partitioner specification: 1..MaxBodies

(***************************************************************************)
(* Program constants.                                                      *)
(***************************************************************************)
Round == 256             \* unsigned int round = 256
FastMajor == 2           \* props.major >= 2
FastFactor == 4          \* ... ? 4.f : 1.f
DefaultSoftening == 125  \* setSoftening(0.00125f), in units of 1e-5
DefaultDamping == 995    \* setDamping(0.995f), in units of 1e-3

\* Buffer content tokens: the zero fill and one other pattern.
Data == {0, 1}
Ordinals == 0..(MaxDevices - 1)
DeviceProps == [multiProcessorCount : 1..MaxSms, major : {1, FastMajor}]

\* The body counts, softenings and dampings the lifecycle specification draws from.
LifecycleBodies == {1, Round + 1}
Softenings == {DefaultSoftening}
Dampings == {DefaultDamping}

BODYSYSTEM_POSITION == "BODYSYSTEM_POSITION"
BODYSYSTEM_VELOCITY == "BODYSYSTEM_VELOCITY"
BodyArray == {BODYSYSTEM_POSITION, BODYSYSTEM_VELOCITY}

(***************************************************************************)
(* Handles.  A pointer or object name is a pair <<kind, index>>; Null is   *)
(* the null pointer, Uninit a field that was never assigned.               *)
(***************************************************************************)
Null == <<"null", 0>>
Uninit == <<"uninit", 0>>
Buffers == {<<"hPos", 0>>, <<"hPos", 1>>, <<"hVel", 0>>,
            <<"dPos", 0>>, <<"dPos", 1>>, <<"dVel", 0>>,
            <<"pbo", 0>>, <<"pbo", 1>>}
Events == {<<"event", i>> : i \in Ordinals}
Resources == Buffers \cup Events
                 \cup {<<"gres", 0>>, <<"gres", 1>>, <<"deviceData", 0>>}

VARIABLES
    props,            \* cudaGetDeviceProperties, by ordinal of the installed devices
    pc,               \* "new", "live", "destroyed"
    m_numBodies, m_numDevices, m_bInitialized,
    m_bUsePBO, m_bUseSysMem, m_bUseP2P,
    m_currentRead, m_currentWrite, m_damping,
    m_hPos, m_hVel, m_pbo, m_pGRes,
    m_deviceData,     \* slot table: ordinal -> [offset, numBodies, dPos, dVel, event]
    softeningSq,      \* the device constant set by setSofteningSquared, by ordinal
    res,              \* platform resources: "free" or "held"
    mem,              \* content token of each buffer
    cap,              \* capacity of each buffer, in bodies
    leaked,           \* resources whose only handle was overwritten while held
    badFree,          \* handles released while not held
    badUse,           \* handles used for a transfer while not a held buffer
    fault,            \* the assertion or trap that stopped the process, "none" otherwise
    overrun,          \* what an access past the end of the slot table does in this
                      \* build: "lands" (in the memory behind it) or "traps"
    stray,            \* slot ordinals accessed outside 0..m_numDevices-1
    pending,          \* devices still working on the last update
    mapped,           \* interop resources mapped for compute access
    peerEnabled,      \* devices whose access to the memory of device 0 is enabled
    grants,           \* what cudaDeviceEnablePeerAccess returned in the last
                      \* _initialize, by device ("none": not called)
    calls,            \* the interop calls and transfers of the last getArray
    acquired,         \* the resources the last _initialize acquired, in order
    released,         \* the resources the _finalize after it released, in order
    last              \* the last public operation (see Entry)

vars == <<props, pc, m_numBodies, m_numDevices, m_bInitialized,
          m_bUsePBO, m_bUseSysMem, m_bUseP2P, m_currentRead, m_currentWrite,
          m_damping, m_hPos, m_hVel, m_pbo, m_pGRes, m_deviceData,
          softeningSq, res, mem, cap, leaked, badFree, badUse, fault,
          overrun, stray, pending, mapped, peerEnabled, grants, calls,
          acquired, released, last>>

\* The object and the platform as one record, so that a handler's calls compose.
World ==
    [m_numBodies |-> m_numBodies, m_numDevices |-> m_numDevices,
     m_bInitialized |-> m_bInitialized, m_bUsePBO |-> m_bUsePBO,
     m_bUseSysMem |-> m_bUseSysMem, m_bUseP2P |-> m_bUseP2P,
     m_currentRead |-> m_currentRead, m_currentWrite |-> m_currentWrite,
     m_damping |-> m_damping, m_hPos |-> m_hPos, m_hVel |-> m_hVel,
     m_pbo |-> m_pbo, m_pGRes |-> m_pGRes, m_deviceData |-> m_deviceData,
     softeningSq |-> softeningSq, res |-> res, mem |-> mem, cap |-> cap,
     leaked |-> leaked, badFree |-> badFree, badUse |-> badUse, fault |-> fault,
     overrun |-> overrun, stray |-> stray,
     pending |-> pending, mapped |-> mapped, calls |-> calls,
     peerEnabled |-> peerEnabled, grants |-> grants,
     acquired |-> acquired, released |-> released]

\* The world a public operation starts in.
Begin == [World EXCEPT !.calls = <<>>]

Commit(w) ==
    /\ m_numBodies' = w.m_numBodies
    /\ m_numDevices' = w.m_numDevices
    /\ m_bInitialized' = w.m_bInitialized
    /\ m_bUsePBO' = w.m_bUsePBO
    /\ m_bUseSysMem' = w.m_bUseSysMem
    /\ m_bUseP2P' = w.m_bUseP2P
    /\ m_currentRead' = w.m_currentRead
    /\ m_currentWrite' = w.m_currentWrite
    /\ m_damping' = w.m_damping
    /\ m_hPos' = w.m_hPos
    /\ m_hVel' = w.m_hVel
    /\ m_pbo' = w.m_pbo
    /\ m_pGRes' = w.m_pGRes
    /\ m_deviceData' = w.m_deviceData
    /\ softeningSq' = w.softeningSq
    /\ res' = w.res
    /\ mem' = w.mem
    /\ cap' = w.cap
    /\ leaked' = w.leaked
    /\ badFree' = w.badFree
    /\ badUse' = w.badUse
    /\ fault' = w.fault
    /\ overrun' = w.overrun
    /\ stray' = w.stray
    /\ pending' = w.pending
    /\ mapped' = w.mapped
    /\ peerEnabled' = w.peerEnabled
    /\ grants' = w.grants
    /\ calls' = w.calls
    /\ acquired' = w.acquired
    /\ released' = w.released

(***************************************************************************)
(* The platform: acquiring and releasing resources, transfers.             *)
(***************************************************************************)
Acquire(w, r) ==
    [w EXCEPT !.leaked = IF w.res[r] = "held" THEN @ \cup {r} ELSE @,
              !.res[r] = "held",
              !.acquired = Append(@, r)]

Release(w, h) ==
    IF h = Null THEN w
    ELSE IF h \in Resources /\ w.res[h] = "held"
         THEN [w EXCEPT !.res[h] = "free",
                        !.released = Append(@, h),
                        !.mem = IF h \in Buffers THEN [@ EXCEPT ![h] = 0] ELSE @,
                        !.cap = IF h \in Buffers THEN [@ EXCEPT ![h] = 0] ELSE @]
         ELSE [w EXCEPT !.badFree = @ \cup {h}]

\* A buffer of n bodies with content d (d is what the allocator leaves there).
AllocBuffer(w, b, n, d) ==
    [Acquire(w, b) EXCEPT !.mem[b] = d, !.cap[b] = n]

Usable(w, h, n) == h \in Buffers /\ w.res[h] = "held" /\ w.cap[h] = n

\* Write the n bodies d to the buffer behind h.
Store(w, h, n, d) ==
    IF Usable(w, h, n) THEN [w EXCEPT !.mem[h] = d]
    ELSE [w EXCEPT !.badUse = @ \cup {h}]

\* memcpy / cudaMemcpy of n bodies from src to dst.
Transfer(w, dst, src, n) ==
    IF Usable(w, src, n) THEN Store(w, dst, n, w.mem[src])
    ELSE [w EXCEPT !.badUse = @ \cup {src}]

\* A failed assertion aborts the process: the rest of the handler does not run.
Aborted(w) == w.fault # "none"

(***************************************************************************)
(* The device partitioner (the workload loop of _initialize).              *)
(***************************************************************************)
Weight(p) ==
    p.multiProcessorCount * (IF p.major >= FastMajor THEN FastFactor ELSE 1)

RECURSIVE TotalWeight(_, _)
TotalWeight(P, nd) ==
    IF nd = 0 THEN 0 ELSE TotalWeight(P, nd - 1) + Weight(P[nd - 1])

\* (int)((weights[i] / total) * m_numBodies): the share, truncated.  On every
\* input of this model (weights 1, 2, 4, 8, up to three devices, up to 1026
\* bodies) the single-precision quotient and product truncate to the integer
\* quotient below; with other weights the float result can fall one short of
\* it (weights 3, 4, 12 and 95 bodies give 14, not 15).
TruncatedShare(wt, total, n) == (wt * n) \div total

\* count = round * ((count + round - 1) / round)
RoundDown(count) == Round * (count \div Round)
Unrounded(count) == count
RoundUp(count) == Round * ((count + Round - 1) \div Round)

\* if (count > remaining) count = remaining
Uncapped(count, remaining) == count
CapToRemaining(count, remaining) ==
    IF count > remaining THEN remaining ELSE count

\* offset < m_numBodies-1, in unsigned arithmetic: m_numBodies-1 wraps to the
\* largest unsigned value when m_numBodies is 0, which every offset of the
\* model is below.  (No other operation of the loop leaves the range of an
\* unsigned int: count <= remaining and offset <= m_numBodies throughout.)
BelowLastBody(offset, n) == IF n = 0 THEN TRUE ELSE offset < n - 1

\* if ((i == m_numDevices - 1) && (offset < m_numBodies-1)) numBodies += m_numBodies - offset
\* (offset is the running offset after this device's count was added)
AbsorbRemainder(i, nd, offset, n, count) ==
    IF i = nd - 1 /\ BelowLastBody(offset, n)
    THEN count + (n - offset)
    ELSE count

\* The count the loop assigns to device i before the remainder is absorbed.
DeviceCount(P, nd, n, i, remaining) ==
    CapToRemaining(RoundUp(TruncatedShare(Weight(P[i]), TotalWeight(P, nd), n)),
                   remaining)

\* One pass of the loop body, for a device given count bodies.
AssignSlot(dd, i, nd, n, offset, count) ==
    [dd EXCEPT ![i].offset = offset,
               ![i].numBodies = AbsorbRemainder(i, nd, offset + count, n, count)]

RECURSIVE DivideWorkload(_, _, _, _, _, _, _)
DivideWorkload(dd, P, nd, n, i, offset, remaining) ==
    IF i >= nd THEN dd
    ELSE LET count == DeviceCount(P, nd, n, i, remaining)
         IN  DivideWorkload(AssignSlot(dd, i, nd, n, offset, count), P, nd, n,
                            i + 1, offset + count, remaining - count)

\* new DeviceData<T>[m_numDevices]: every field unassigned.
NewDeviceData(nd) ==
    [i \in 0..(nd - 1) |->
        [offset |-> 0, numBodies |-> 0,
         dPos |-> [k \in 0..1 |-> Uninit], dVel |-> Uninit, event |-> Uninit]]

\* The storage m_deviceData points to after new DeviceData<T>[nd]: the nd
\* slots, and for nd = 0 the memory right behind the empty array, which the
\* code addresses as m_deviceData[0].
SlotStorage(nd) == NewDeviceData(IF nd = 0 THEN 1 ELSE nd)

\* An access to m_deviceData[i].  Outside 0..m_numDevices-1 the behaviour is
\* undefined: the access lands in the memory behind the array, or traps.
Touch(w, i) ==
    IF i < w.m_numDevices THEN w
    ELSE [w EXCEPT !.stray = @ \cup {i},
                   !.fault = IF w.overrun = "traps" /\ @ = "none"
                             THEN "SIGSEGV" ELSE @]

\* A trap ends the process where it happens: of the handler that trapped,
\* nothing is kept but the trap.
Halt(before, after) ==
    IF after.fault = "SIGSEGV"
    THEN [before EXCEPT !.fault = "SIGSEGV", !.stray = after.stray]
    ELSE after

(***************************************************************************)
(* _initialize and _finalize.                                              *)
(***************************************************************************)
RECURSIVE CreateEvents(_, _, _)
\* cudaEventCreate(&m_deviceData[i].event) for i in from..to
CreateEvents(w, from, to) ==
    IF from > to THEN w
    ELSE CreateEvents(
             [Acquire(Touch(w, from), <<"event", from>>)
                 EXCEPT !.m_deviceData[from].event = <<"event", from>>],
             from + 1, to)

RECURSIVE DestroyEvents(_, _, _)
\* cudaEventDestroy(m_deviceData[i].event) for i in from..to
DestroyEvents(w, from, to) ==
    IF from > to THEN w
    ELSE DestroyEvents(Release(Touch(w, from), w.m_deviceData[from].event),
                       from + 1, to)

\* cudaHostGetDevicePointer: every slot's handles are the host buffers.
MapHostPointers(w) ==
    [w EXCEPT !.m_deviceData =
        [i \in DOMAIN w.m_deviceData |->
            IF i < w.m_numDevices
            THEN [w.m_deviceData[i] EXCEPT !.dPos = w.m_hPos, !.dVel = w.m_hVel]
            ELSE w.m_deviceData[i]]]

\* The cudaHostAlloc branch of _initialize.
InitSysMem(w, n) ==
    LET a0 == AllocBuffer(w, <<"hPos", 0>>, n, 0)
        a1 == AllocBuffer(a0, <<"hPos", 1>>, n, 0)
        a2 == AllocBuffer(a1, <<"hVel", 0>>, n, 0)
        a3 == [a2 EXCEPT !.m_hPos = [k \in 0..1 |-> <<"hPos", k>>],
                         !.m_hVel = <<"hVel", 0>>]
    IN  MapHostPointers(CreateEvents(a3, 0, w.m_numDevices - 1))

\* glBufferData(GL_ARRAY_BUFFER, memSize, m_hPos[0], ...) and the registration.
GenRenderBuffer(w, k, n) ==
    [Acquire(AllocBuffer(w, <<"pbo", k>>, n, w.mem[w.m_hPos[0]]), <<"gres", k>>)
        EXCEPT !.m_pbo[k] = <<"pbo", k>>, !.m_pGRes[k] = <<"gres", k>>]

\* cudaMalloc((void **)&m_deviceData[0].dPos[k], memSize)
MallocDevicePos(w, k, n, d) ==
    [AllocBuffer(Touch(w, 0), <<"dPos", k>>, n, d)
        EXCEPT !.m_deviceData[0].dPos[k] = <<"dPos", k>>]

\* The position buffers of the else branch: render buffers or device memory.
InitPositionBuffers(w, n, junk) ==
    IF w.m_bUsePBO
    THEN GenRenderBuffer(GenRenderBuffer(w, 0, n), 1, n)
    ELSE MallocDevicePos(MallocDevicePos(w, 0, n, junk.dPos0), 1, n, junk.dPos1)

\* cudaDeviceEnablePeerAccess(0, 0) on device i: the platform reports an
\* access that is enabled already, and answers otherwise.
EnablePeerAccess(w, i, answer) ==
    IF i \in w.peerEnabled
    THEN [w EXCEPT !.grants[i] = "cudaErrorPeerAccessAlreadyEnabled"]
    ELSE [w EXCEPT !.grants[i] = answer,
                   !.peerEnabled = IF answer = "cudaSuccess" THEN @ \cup {i} ELSE @]

\* checkCudaErrors(error): anything but cudaSuccess ends the process.
checkCudaErrors(w, error) ==
    IF error = "cudaSuccess" THEN w
    ELSE [w EXCEPT !.fault = "checkCudaErrors"]

\* if (error != cudaErrorPeerAccessAlreadyEnabled) checkCudaErrors(error);
\* else cudaGetLastError();
CheckEveryGrant(w, i) == checkCudaErrors(w, w.grants[i])
CheckGrant(w, i) ==
    IF w.grants[i] # "cudaErrorPeerAccessAlreadyEnabled"
    THEN checkCudaErrors(w, w.grants[i])
    ELSE w

\* Point all GPUs to the memory allocated on gpu0.
PointToDevice0(w, i) ==
    [w EXCEPT !.m_deviceData[i].dPos = w.m_deviceData[0].dPos,
              !.m_deviceData[i].dVel = w.m_deviceData[0].dVel]

\* The rest of a pass of the peer loop, once the access is granted.
JoinPeer(w, i) ==
    IF Aborted(w) THEN w ELSE PointToDevice0(CreateEvents(w, i, i), i)

RECURSIVE InitPeersFrom(_, _, _)
\* for (unsigned int i = 1; i < m_numDevices; i++): the peers from i on.
InitPeersFrom(w, i, answers) ==
    IF i >= w.m_numDevices \/ Aborted(w) THEN w
    ELSE InitPeersFrom(
             JoinPeer(CheckGrant(EnablePeerAccess(w, i, answers[i]), i), i),
             i + 1, answers)

\* if (m_bUseP2P): access to device 0, an event and the handles of device 0
\* for every peer.
InitPeers(w, answers) ==
    IF w.m_bUseP2P THEN InitPeersFrom(w, 1, answers) ELSE w

\* The else branch of _initialize; junk is what cudaMalloc leaves in
\* the buffers it returns.
InitDeviceMem(w, n, junk) ==
    LET a0 == AllocBuffer(w, <<"hPos", 0>>, n, 0)
        a1 == AllocBuffer(a0, <<"hVel", 0>>, n, 0)
        a2 == [a1 EXCEPT !.m_hPos[0] = <<"hPos", 0>>, !.m_hVel = <<"hVel", 0>>]
        a3 == CreateEvents(a2, 0, 0)
        a4 == InitPositionBuffers(a3, n, junk)
        a5 == [AllocBuffer(Touch(a4, 0), <<"dVel", 0>>, n, junk.dVel)
                  EXCEPT !.m_deviceData[0].dVel = <<"dVel", 0>>]
    IN  InitPeers(a5, junk.peer)

\* m_deviceData = new DeviceData<T>[m_numDevices], and the workload loop.
InitDeviceData(w, P, n) ==
    [Acquire([w EXCEPT !.acquired = <<>>, !.released = <<>>,
                       !.grants = [i \in Ordinals |-> "none"]],
             <<"deviceData", 0>>)
        EXCEPT !.m_numBodies = n,
               !.m_deviceData =
                   DivideWorkload(SlotStorage(w.m_numDevices), P,
                                  w.m_numDevices, n, 0, 0, n)]

\* The memory strategy of _initialize.
InitBuffers(w, n, junk) ==
    IF w.m_bUseSysMem THEN InitSysMem(w, n) ELSE InitDeviceMem(w, n, junk)

\* m_bInitialized = true, which a process that was stopped does not reach.
MarkInitialized(w) ==
    IF Aborted(w) THEN w ELSE [w EXCEPT !.m_bInitialized = TRUE]

_initialize(w, P, numBodies, junk) ==
    IF w.m_bInitialized THEN [w EXCEPT !.fault = "assert(!m_bInitialized)"]
    ELSE MarkInitialized(
             InitBuffers(InitDeviceData(w, P, numBodies), numBodies, junk))

\* The three host buffers: cudaFreeHost, or delete [].  (The releases change
\* no field of the object, so every handle is read from w.)
FreeHostBuffers(w) ==
    Release(Release(Release(w, w.m_hPos[0]), w.m_hPos[1]), w.m_hVel)

\* The cudaFreeHost branch of _finalize.
FinalizeSysMem(w) ==
    DestroyEvents(FreeHostBuffers(w), 0, w.m_numDevices - 1)

\* if (m_bUseP2P) cudaEventDestroy(m_deviceData[i].event) for the peers
DestroyPeerEvents(w) ==
    IF w.m_bUseP2P THEN DestroyEvents(w, 1, w.m_numDevices - 1) ELSE w

\* The position buffers of the else branch of _finalize.
FinalizePositionBuffers(w) ==
    IF w.m_bUsePBO
    THEN Release(Release(Release(Release(w, w.m_pGRes[0]), w.m_pGRes[1]),
                         w.m_pbo[0]), w.m_pbo[1])
    ELSE DestroyPeerEvents(
             DestroyEvents(
                 Release(Release(Touch(w, 0), w.m_deviceData[0].dPos[0]),
                         w.m_deviceData[0].dPos[1]),
                 0, 0))

\* The else branch of _finalize.
FinalizeDeviceMem(w) ==
    FinalizePositionBuffers(
        Release(Touch(FreeHostBuffers(w), 0), w.m_deviceData[0].dVel))

\* The memory strategy of _finalize.
FinalizeBuffers(w) ==
    IF w.m_bUseSysMem THEN FinalizeSysMem(w) ELSE FinalizeDeviceMem(w)

\* delete [] m_deviceData before the buffers are released, instead of after
FinalizeSlotTableFirst(w) ==
    IF ~w.m_bInitialized THEN [w EXCEPT !.fault = "assert(m_bInitialized)"]
    ELSE [FinalizeBuffers(Release(w, <<"deviceData", 0>>))
             EXCEPT !.m_bInitialized = FALSE]
_finalize(w) ==
    IF ~w.m_bInitialized THEN [w EXCEPT !.fault = "assert(m_bInitialized)"]
    ELSE [Release(FinalizeBuffers(w), <<"deviceData", 0>>)
             EXCEPT !.m_bInitialized = FALSE]

(***************************************************************************)
(* The public operations, as functions of the world.                       *)
(***************************************************************************)
\* setSoftening: softeningSq = softening*softening, set once per device.
setSoftening(w, softening) ==
    [w EXCEPT !.softeningSq =
        [i \in Ordinals |-> IF i < w.m_numDevices THEN softening * softening
                            ELSE w.softeningSq[i]]]

setDamping(w, damping) == [w EXCEPT !.m_damping = damping]

\* The next call of a handler, which runs unless an assertion aborted it.
ThenSetSoftening(w, softening) ==
    IF Aborted(w) THEN w ELSE setSoftening(w, softening)
ThenSetDamping(w, damping) == IF Aborted(w) THEN w ELSE setDamping(w, damping)
ThenInitialize(w, P, numBodies, junk) ==
    IF Aborted(w) THEN w ELSE _initialize(w, P, numBodies, junk)

\* The constructor: the member initialisers, then its body.
BodySystemCUDA(w, P, numBodies, numDevices, usePBO, useSysMem, useP2P, junk) ==
    LET c0 == [w EXCEPT !.m_numBodies = numBodies,
                        !.m_numDevices = numDevices,
                        !.m_bInitialized = FALSE,
                        !.m_bUsePBO = usePBO,
                        !.m_bUseSysMem = useSysMem,
                        !.m_bUseP2P = useP2P,
                        !.m_currentRead = 0,
                        !.m_currentWrite = 1,
                        !.m_hPos = [k \in 0..1 |-> Null],
                        !.m_hVel = Null,
                        !.m_deviceData = NewDeviceData(0)]
    IN  Halt(c0, ThenSetDamping(
                     ThenSetSoftening(_initialize(c0, P, numBodies, junk),
                                      DefaultSoftening),
                     DefaultDamping))

\* The destructor.
ClearNumBodies(w) == IF Aborted(w) THEN w ELSE [w EXCEPT !.m_numBodies = 0]
Destructor(w) == ClearNumBodies(_finalize(w))

\* The buffer object a registered interop resource maps to.
MappedPointer(w, pgres) ==
    IF pgres \in {<<"gres", 0>>, <<"gres", 1>>} /\ w.res[pgres] = "held"
    THEN <<"pbo", pgres[2]>>
    ELSE Uninit

\* std::swap(m_currentRead, m_currentWrite)
SwapOverwriting(w) ==
    [w EXCEPT !.m_currentRead = w.m_currentWrite,
              !.m_currentWrite = w.m_currentWrite]
Swap(w) ==
    [w EXCEPT !.m_currentRead = w.m_currentWrite,
              !.m_currentWrite = w.m_currentRead]

\* The external integration routine: every device writes the positions of
\* the step into the buffer of index 1 - currentRead and the velocities into
\* the velocity buffer, through its own slot's handles (the mapped render
\* buffers instead, for slot 0, when bUsePBO is passed).  It returns once
\* the work is dispatched: every device is left pending, and the contents
\* recorded for a buffer are those it holds when the work is complete.
RECURSIVE integrateNbodySystem(_, _, _, _, _, _)
integrateNbodySystem(w, dev, currentRead, bUsePBO, newPos, newVel) ==
    IF dev >= w.m_numDevices THEN w
    ELSE integrateNbodySystem(
             [Store(Store(w, IF bUsePBO /\ dev = 0
                             THEN MappedPointer(w, w.m_pGRes[1 - currentRead])
                             ELSE w.m_deviceData[dev].dPos[1 - currentRead],
                          w.m_numBodies, newPos),
                    w.m_deviceData[dev].dVel, w.m_numBodies, newVel)
                 EXCEPT !.pending = @ \cup {dev}],
             dev + 1, currentRead, bUsePBO, newPos, newVel)

\* The caller waits on the events of the slot table until every device has
\* completed its work.
AwaitCompletion(w) == [w EXCEPT !.pending = {}]

\* cudaMemcpy from device memory is queued behind the work of the device
\* that is current (which device that is after an update is the integration
\* routine's choice): it proceeds once some device has completed.  In the
\* sysmem branch getArray makes no such call.
MemcpyReady(w) ==
    IF w.m_bUseSysMem THEN TRUE
    ELSE IF w.pending = {} THEN TRUE
    ELSE {d \in 0..(w.m_numDevices - 1) : d \notin w.pending} # {}

update(w, newPos, newVel) ==
    IF ~w.m_bInitialized THEN [w EXCEPT !.fault = "assert(m_bInitialized)"]
    ELSE Swap(integrateNbodySystem(w, 0, w.m_currentRead, w.m_bUsePBO,
                                   newPos, newVel))

\* int currentReadHost = m_bUseSysMem ? m_currentRead : 0
CurrentReadHost(w) == IF w.m_bUseSysMem THEN w.m_currentRead ELSE 0

\* cudaGraphicsResource *pgres: the interop resource of the read index for
\* the positions of a system with render buffers, NULL otherwise.
Pgres(w, array) ==
    IF array = BODYSYSTEM_POSITION /\ w.m_bUsePBO
    THEN w.m_pGRes[w.m_currentRead]
    ELSE Null

\* cudaGraphicsResourceSetMapFlags(pgres, flags)
SetMapFlags(w, pgres, flags) ==
    [w EXCEPT !.calls = Append(@, <<"cudaGraphicsResourceSetMapFlags", pgres, flags>>)]

\* cudaGraphicsMapResources(1, &pgres, 0)
MapResources(w, pgres) ==
    [w EXCEPT !.mapped = @ \cup {pgres},
              !.calls = Append(@, <<"cudaGraphicsMapResources", pgres, 0>>)]

\* cudaGraphicsUnmapResources(1, &pgres, 0)
LeaveMapped(w, pgres) == w
UnmapResources(w, pgres) ==
    [w EXCEPT !.mapped = @ \ {pgres},
              !.calls = Append(@, <<"cudaGraphicsUnmapResources", pgres, 0>>)]

\* cudaGraphicsResourceGetMappedPointer: the buffer object behind a resource
\* that is mapped.
GetMappedPointer(w, pgres) ==
    IF pgres \in w.mapped THEN MappedPointer(w, pgres) ELSE Uninit

\* The device-side source getArray copies from: the mapped interop resource
\* when there is one, the slot 0 handle otherwise.
GetSourceOfWriteIndex(w, array) ==
    IF array = BODYSYSTEM_VELOCITY THEN w.m_deviceData[0].dVel
    ELSE IF w.m_bUsePBO /\ w.m_pGRes[w.m_currentWrite] # Null
         THEN GetMappedPointer(w, w.m_pGRes[w.m_currentWrite])
         ELSE w.m_deviceData[0].dPos[w.m_currentWrite]
GetSource(w, array) ==
    IF array = BODYSYSTEM_VELOCITY THEN w.m_deviceData[0].dVel
    ELSE IF Pgres(w, array) # Null
         THEN GetMappedPointer(w, Pgres(w, array))
         ELSE w.m_deviceData[0].dPos[w.m_currentRead]

\* T *hdata: the host buffer getArray returns.
GetHostData(w, array) ==
    IF array = BODYSYSTEM_VELOCITY THEN w.m_hVel ELSE w.m_hPos[CurrentReadHost(w)]

\* if (pgres) { set the read-only flag, map, get the mapped pointer }
MapIfAny(w, array) ==
    IF Pgres(w, array) # Null
    THEN MapResources(SetMapFlags(w, Pgres(w, array), "cudaGraphicsMapFlagsReadOnly"),
                      Pgres(w, array))
    ELSE w

\* cudaMemcpy(hdata, ddata, m_numBodies*4*sizeof(T), cudaMemcpyDeviceToHost)
CopyToHost(w, array) ==
    [Transfer(w, GetHostData(w, array), GetSource(w, array), w.m_numBodies)
        EXCEPT !.calls = Append(@, <<"cudaMemcpy", GetSource(w, array), 0>>)]

\* if (pgres) cudaGraphicsUnmapResources(1, &pgres, 0)
UnmapIfAny(w, array) ==
    IF Pgres(w, array) # Null THEN UnmapResources(w, Pgres(w, array)) ELSE w

\* getArray: the world after the call.
getArray(w, array) ==
    IF ~w.m_bInitialized THEN [w EXCEPT !.fault = "assert(m_bInitialized)"]
    ELSE IF ~w.m_bUseSysMem
         THEN UnmapIfAny(CopyToHost(MapIfAny(Touch(w, 0), array), array), array)
         ELSE Touch(w, 0)

\* What the caller reads through the pointer getArray returned; junk is what
\* a read through a pointer to no live buffer yields.
Deref(w, h, junk) == IF h \in Buffers /\ w.res[h] = "held" THEN w.mem[h] ELSE junk

\* The data the caller finds behind the pointer getArray returns.
getArrayData(w, array, junk) ==
    Deref(getArray(w, array), GetHostData(w, array), junk)

\* m_currentRead = 0; m_currentWrite = 1;
ResetReadOnly(w) == [w EXCEPT !.m_currentRead = 0]
ResetIndices(w) == [w EXCEPT !.m_currentRead = 0, !.m_currentWrite = 1]

\* The destination the switch of setArray selects.
SetDestination(w, array) ==
    IF array = BODYSYSTEM_VELOCITY
    THEN IF w.m_bUseSysMem THEN w.m_hVel ELSE w.m_deviceData[0].dVel
    ELSE IF w.m_bUsePBO THEN w.m_pbo[w.m_currentRead]
    ELSE IF w.m_bUseSysMem THEN w.m_hPos[w.m_currentRead]
    ELSE w.m_deviceData[0].dPos[w.m_currentRead]

\* Whether that destination is read from slot 0 of the slot table.
SetReadsSlot(w, array) ==
    ~w.m_bUseSysMem /\ (array = BODYSYSTEM_VELOCITY \/ ~w.m_bUsePBO)

\* The switch of setArray, once the indices are reset.
WriteArray(w, array, data) ==
    Store(IF SetReadsSlot(w, array) THEN Touch(w, 0) ELSE w,
          SetDestination(w, array), w.m_numBodies, data)

setArray(w, array, data) ==
    IF ~w.m_bInitialized THEN [w EXCEPT !.fault = "assert(m_bInitialized)"]
    ELSE WriteArray(ResetIndices(w), array, data)

ThenSetArray(w, array, data) ==
    IF Aborted(w) THEN w ELSE setArray(w, array, data)

\* if (m_bInitialized) _finalize();
NoFinalize(w) == w
FinalizeIfInitialized(w) == IF w.m_bInitialized THEN _finalize(w) ELSE w

\* loadTipsyFile: nBodies, positions and velocities are what read_tipsy_file
\* returns.
loadTipsyFile(w, P, nBodies, positions, velocities, junk) ==
    ThenSetArray(
        ThenSetArray(
            ThenInitialize(FinalizeIfInitialized(w), P, nBodies, junk),
            BODYSYSTEM_POSITION, positions),
        BODYSYSTEM_VELOCITY, velocities)

(***************************************************************************)
(* The state machine.                                                      *)
(***************************************************************************)
\* What the platform answers in _initialize: the contents cudaMalloc leaves
\* in the buffers, and what cudaDeviceEnablePeerAccess returns for an access
\* that is not enabled yet.
Granted == [i \in Ordinals |-> "cudaSuccess"]
PeerAnswers == [Ordinals -> {"cudaSuccess", "cudaErrorPeerAccessUnsupported"}]
Junk == [dPos0 : Data, dPos1 : Data, dVel : Data, peer : {Granted}]
NoJunk == [dPos0 |-> 0, dPos1 |-> 0, dVel |-> 0, peer |-> Granted]

\* The record of the last public operation: the operation, its array
\* argument, the data it was given (setArray, and the positions of
\* loadTipsyFile) or returned (getArray), the buffer indices it found on
\* entry; count and vel are the body count and the velocities loadTipsyFile
\* read, seen the positions a getArray would have returned when
\* setArray(Velocity) was entered.
Entry(op, array, data) ==
    [op |-> op, array |-> array, data |-> data,
     read |-> m_currentRead, write |-> m_currentWrite,
     count |-> 0, vel |-> 0, seen |-> 0]

Logged(e) == last' = e

\* What cudaMalloc can leave in the buffers _initialize allocates with it.
JunkFor(usePBO, useSysMem) ==
    IF useSysMem THEN {NoJunk}
    ELSE IF usePBO THEN [dPos0 : {0}, dPos1 : {0}, dVel : Data, peer : {Granted}]
    ELSE Junk

\* Before construction: no field holds a value yet, the platform holds nothing.
Fresh ==
    /\ pc = "new"
    /\ m_numBodies = 0 /\ m_numDevices = 0 /\ m_bInitialized = FALSE
    /\ m_bUsePBO = FALSE /\ m_bUseSysMem = FALSE /\ m_bUseP2P = FALSE
    /\ m_currentRead = 0 /\ m_currentWrite = 0 /\ m_damping = 0
    /\ m_hPos = [k \in 0..1 |-> Uninit] /\ m_hVel = Uninit
    /\ m_pbo = [k \in 0..1 |-> Uninit] /\ m_pGRes = [k \in 0..1 |-> Uninit]
    /\ m_deviceData = NewDeviceData(0)
    /\ softeningSq = [i \in Ordinals |-> 0]
    /\ res = [r \in Resources |-> "free"]
    /\ mem = [b \in Buffers |-> 0]
    /\ cap = [b \in Buffers |-> 0]
    /\ leaked = {} /\ badFree = {} /\ badUse = {} /\ stray = {}
    /\ pending = {} /\ acquired = <<>> /\ released = <<>>
    /\ mapped = {} /\ calls = <<>>
    /\ peerEnabled = {} /\ grants = [i \in Ordinals |-> "none"]
    /\ fault = "none"
    /\ last = [op |-> "none", array |-> "-", data |-> 0, read |-> 0, write |-> 0,
               count |-> 0, vel |-> 0, seen |-> 0]

\* The number of devices installed (cudaGetDeviceProperties succeeds for these).
Installed == Cardinality(DOMAIN props)

\* The lifecycle specification runs on a machine of MaxDevices identical devices.
Init ==
    /\ props = [i \in Ordinals |-> [multiProcessorCount |-> MaxSms, major |-> FastMajor]]
    /\ overrun = "lands"
    /\ Fresh

\* The partitioner specification runs on every machine of up to MaxDevices
\* devices, of every mix of properties.
PartInit ==
    /\ \E d \in 1..MaxDevices : props \in [0..(d - 1) -> DeviceProps]
    /\ overrun = "lands"
    /\ Fresh

Construct(numBodies, numDevices, usePBO, useSysMem, useP2P, junk) ==
    /\ pc = "new"
    /\ numDevices <= Installed
    /\ Commit(BodySystemCUDA(Begin, props, numBodies, numDevices,
                             usePBO, useSysMem, useP2P, junk))
    /\ pc' = "live"
    /\ Logged(Entry("BodySystemCUDA", "-", 0))
    /\ UNCHANGED props

Destroy ==
    /\ pc = "live" /\ ~Aborted(World)
    /\ Commit(Halt(Begin, Destructor(Begin)))
    /\ pc' = "destroyed"
    /\ Logged(Entry("~BodySystemCUDA", "-", 0))
    /\ UNCHANGED props

LoadTipsyFile(nBodies, positions, velocities, junk) ==
    /\ pc = "live" /\ ~Aborted(World)
    /\ Commit(Halt(Begin, loadTipsyFile(Begin, props, nBodies, positions,
                                        velocities, junk)))
    /\ Logged([Entry("loadTipsyFile", "-", positions)
                   EXCEPT !.count = nBodies, !.vel = velocities])
    /\ UNCHANGED <<props, pc>>

SetSoftening(softening) ==
    /\ pc = "live" /\ ~Aborted(World)
    /\ Commit(Halt(Begin, setSoftening(Begin, softening)))
    /\ Logged(Entry("setSoftening", "-", 0))
    /\ UNCHANGED <<props, pc>>

SetDamping(damping) ==
    /\ pc = "live" /\ ~Aborted(World)
    /\ Commit(Halt(Begin, setDamping(Begin, damping)))
    /\ Logged(Entry("setDamping", "-", 0))
    /\ UNCHANGED <<props, pc>>

\* update, called by a caller that waits for the devices before it goes on.
Update(newPos, newVel) ==
    /\ pc = "live" /\ ~Aborted(World)
    /\ Commit(Halt(Begin, AwaitCompletion(update(Begin, newPos, newVel))))
    /\ Logged(Entry("update", "-", 0))
    /\ UNCHANGED <<props, pc>>

\* update, called by a caller that goes on at once.
UpdateNoWait(newPos, newVel) ==
    /\ pc = "live" /\ ~Aborted(World)
    /\ Commit(Halt(Begin, update(Begin, newPos, newVel)))
    /\ Logged(Entry("update", "-", 0))
    /\ UNCHANGED <<props, pc>>

\* Device d completes its work of the last update.
DeviceCompletes(d) ==
    /\ d \in pending
    /\ pending' = pending \ {d}
    /\ UNCHANGED <<props, pc, m_numBodies, m_numDevices, m_bInitialized,
                   m_bUsePBO, m_bUseSysMem, m_bUseP2P, m_currentRead,
                   m_currentWrite, m_damping, m_hPos, m_hVel, m_pbo, m_pGRes,
                   m_deviceData, softeningSq, res, mem, cap, leaked, badFree,
                   badUse, fault, overrun, stray, mapped, peerEnabled, grants,
                   calls, acquired, released, last>>

GetArray(array, junk) ==
    /\ pc = "live" /\ ~Aborted(World)
    /\ MemcpyReady(World)
    /\ Commit(Halt(Begin, getArray(Begin, array)))
    /\ Logged(Entry("getArray", array, getArrayData(World, array, junk)))
    /\ UNCHANGED <<props, pc>>

SetArray(array, data) ==
    /\ pc = "live" /\ ~Aborted(World)
    /\ Commit(Halt(Begin, setArray(Begin, array, data)))
    /\ Logged([Entry("setArray", array, data)
                   EXCEPT !.seen = IF array = BODYSYSTEM_VELOCITY
                                   THEN getArrayData(World, BODYSYSTEM_POSITION, 0)
                                   ELSE 0])
    /\ UNCHANGED <<props, pc>>

Next ==
    \/ \E n \in LifecycleBodies, nd \in 1..MaxDevices,
          usePBO \in BOOLEAN, useSysMem \in BOOLEAN, useP2P \in BOOLEAN :
            \E junk \in JunkFor(usePBO, useSysMem) :
                Construct(n, nd, usePBO, useSysMem, useP2P, junk)
    \/ Destroy
    \/ \E n \in LifecycleBodies, positions \in Data, velocities \in Data,
          junk \in JunkFor(m_bUsePBO, m_bUseSysMem) :
            LoadTipsyFile(n, positions, velocities, junk)
    \/ \E softening \in Softenings : SetSoftening(softening)
    \/ \E damping \in Dampings : SetDamping(damping)
    \/ \E newPos \in Data, newVel \in Data : Update(newPos, newVel)
    \/ \E array \in BodyArray, junk \in Data : GetArray(array, junk)
    \/ \E array \in BodyArray, data \in Data : SetArray(array, data)

Spec == Init /\ [][Next]_vars

\* Construction alone, host-mapped, on all the installed devices, over every
\* body count up to MaxBodies.
PartNext ==
    \E n \in 1..MaxBodies : Construct(n, Installed, FALSE, TRUE, FALSE, NoJunk)

PartSpec == PartInit /\ [][PartNext]_vars

\* The empty configurations: no device or no body, in every combination of
\* the flags, on a build of either reaction to an access past the slot table.
EdgeInit ==
    /\ props = [i \in Ordinals |-> [multiProcessorCount |-> MaxSms, major |-> FastMajor]]
    /\ overrun \in {"lands", "traps"}
    /\ Fresh

EdgeNext ==
    \/ \E n \in {0, 1}, nd \in 0..MaxDevices,
          usePBO \in BOOLEAN, useSysMem \in BOOLEAN, useP2P \in BOOLEAN :
            /\ (n = 0 \/ nd = 0)
            /\ \E junk \in JunkFor(usePBO, useSysMem) :
                   Construct(n, nd, usePBO, useSysMem, useP2P, junk)
    \/ Destroy
    \/ \E newPos \in Data, newVel \in Data : Update(newPos, newVel)
    \/ \E array \in BodyArray, junk \in Data : GetArray(array, junk)
    \/ \E array \in BodyArray, data \in Data : SetArray(array, data)

EdgeSpec == EdgeInit /\ [][EdgeNext]_vars

\* Updates whose caller does not wait: the devices complete on their own.
AsyncNext ==
    \/ \E nd \in 1..MaxDevices,
          usePBO \in BOOLEAN, useSysMem \in BOOLEAN, useP2P \in BOOLEAN :
            Construct(1, nd, usePBO, useSysMem, useP2P, NoJunk)
    \/ \E newPos \in Data, newVel \in Data : UpdateNoWait(newPos, newVel)
    \/ \E d \in Ordinals : DeviceCompletes(d)
    \/ \E array \in BodyArray, junk \in Data : GetArray(array, junk)
    \/ \E array \in BodyArray, data \in Data : SetArray(array, data)

AsyncSpec == Init /\ [][AsyncNext]_vars

\* Systems outside the sysmem branch on a platform that may refuse a peer
\* its access to device 0.
PeerJunk == [dPos0 : {0}, dPos1 : {0}, dVel : Data, peer : PeerAnswers]

PeerNext ==
    \/ \E n \in LifecycleBodies, nd \in 1..MaxDevices,
          usePBO \in BOOLEAN, useP2P \in BOOLEAN, junk \in PeerJunk :
            Construct(n, nd, usePBO, FALSE, useP2P, junk)
    \/ \E n \in LifecycleBodies, positions \in Data, velocities \in Data,
          junk \in PeerJunk :
            LoadTipsyFile(n, positions, velocities, junk)
    \/ \E array \in BodyArray, junk \in Data : GetArray(array, junk)

PeerSpec == Init /\ [][PeerNext]_vars

(***************************************************************************)
(* Properties of the partitioner, checked under PartSpec.                  *)
(***************************************************************************)
RECURSIVE RangeSum(_, _)
\* The body ranges of slots 0..k-1, added up.
RangeSum(dd, k) == IF k = 0 THEN 0 ELSE RangeSum(dd, k - 1) + dd[k - 1].numBodies

Slots == 0..(m_numDevices - 1)
LastSlot == m_numDevices - 1
ShareWeight(i) ==
    props[i].multiProcessorCount * (IF props[i].major >= 2 THEN 4 ELSE 1)
ShareTotal == TotalWeight(props, m_numDevices)
Min(a, b) == IF a < b THEN a ELSE b
\* The smallest multiple of 256 that is at least num / den.
CeilTo256(num, den) == 256 * ((num + 256 * den - 1) \div (256 * den))
\* The smallest multiple of 256 that is at least the integer part of num / den.
FloorCeilTo256(num, den) == 256 * (((num \div den) + 255) \div 256)
Unassigned(i) == m_numBodies - m_deviceData[i].offset

\* C1: after initialize, for deviceCount >= 1 and bodyCount >= 1, the body
\* ranges of the device slots sum to bodyCount exactly.
C1_RangesSumToBodyCount ==
    (m_bInitialized /\ m_numDevices >= 1 /\ m_numBodies >= 1)
        => RangeSum(m_deviceData, m_numDevices) = m_numBodies

\* C2: after initialize the slot ranges lie inside [0, bodyCount), each offset
\* is the sum of the ranges before it, offsets do not decrease, and no body
\* index belongs to two slots.
C2_RangesDisjointOrdered ==
    (m_bInitialized /\ m_numDevices >= 1 /\ m_numBodies >= 1) =>
        /\ \A i \in Slots :
              /\ m_deviceData[i].offset = RangeSum(m_deviceData, i)
              /\ m_deviceData[i].offset >= 0
              /\ m_deviceData[i].numBodies >= 0
              /\ m_deviceData[i].offset + m_deviceData[i].numBodies <= m_numBodies
        /\ \A i \in Slots, j \in Slots :
              i < j =>
                /\ m_deviceData[i].offset <= m_deviceData[j].offset
                /\ \A b \in 0..(m_numBodies - 1) :
                      ~ /\ m_deviceData[i].offset <= b
                        /\ b < m_deviceData[i].offset + m_deviceData[i].numBodies
                        /\ m_deviceData[j].offset <= b
                        /\ b < m_deviceData[j].offset + m_deviceData[j].numBodies

\* Two devices with a non-empty range each, the second one not aligned.
C2_Witness ==
    /\ m_bInitialized /\ m_numDevices = 2
    /\ m_deviceData[0].numBodies > 0
    /\ m_deviceData[1].numBodies % 256 = 2

C4_NonLastSlotsAligned ==
    m_bInitialized =>
        \A i \in Slots : i # LastSlot => m_deviceData[i].numBodies % 256 = 0

\* C4, amended: a slot whose range is not a multiple of 256 ends the
\* partition: its range ends at bodyCount and every later slot is empty.
C4_OnlyFinalRangeUnaligned ==
    m_bInitialized =>
        \A i \in Slots :
            m_deviceData[i].numBodies % 256 # 0 =>
                /\ m_deviceData[i].offset + m_deviceData[i].numBodies = m_numBodies
                /\ \A j \in Slots : j > i => m_deviceData[j].numBodies = 0

\* A first slot capped at 255 bodies, leaving the second slot empty.
C4_Witness ==
    /\ m_bInitialized /\ m_numDevices = 2 /\ m_numBodies = 255
    /\ m_deviceData[0].numBodies = 255 /\ m_deviceData[1].numBodies = 0

(***************************************************************************)
(* Properties of the lifecycle, checked under Spec.                        *)
(***************************************************************************)
DeviceLocal == ~m_bUsePBO /\ ~m_bUseSysMem
HostMapped == m_bUseSysMem /\ ~m_bUsePBO
RenderShared == m_bUsePBO /\ ~m_bUseSysMem

\* C5: a system constructed in RenderShared mode with more than one device
\* never reaches the Initialized state.
C5_RenderSharedMultiDeviceRejected ==
    (RenderShared /\ m_numDevices > 1) => ~m_bInitialized

\* C6: in each of the three memory modes, whatever the buffer indices were
\* before it, getArray(Position) issued right after setArray(Position, X)
\* returns X.
C6_SetGetRoundTrip ==
    (/\ last.op = "setArray" /\ last.array = BODYSYSTEM_POSITION
     /\ (DeviceLocal \/ HostMapped \/ RenderShared))
        => \A junk \in Data :
              getArrayData(World, BODYSYSTEM_POSITION, junk) = last.data

\* setArray(Position, 1) in RenderShared mode after an odd number of updates,
\* with the other render buffer holding different data.
C6_Witness ==
    /\ last.op = "setArray" /\ last.array = BODYSYSTEM_POSITION
    /\ last.data = 1 /\ last.read = 1
    /\ RenderShared /\ mem[<<"pbo", 1>>] = 0 /\ mem[<<"hPos", 0>>] = 0

\* C7: no resource is ever orphaned while held or released while not held,
\* and once the system is destroyed no resource remains held.
C7_ResourcesReleasedExactlyOnce ==
    /\ leaked = {}
    /\ badFree = {}
    /\ pc = "destroyed" => \A r \in Resources : res[r] = "free"

\* C8: no assertion on the initialized flag ever fails, and the flag is true
\* exactly while the constructed system has not been destroyed.
C8_LifecyclePreconditions ==
    /\ fault = "none"
    /\ m_bInitialized <=> pc = "live"

\* A reload has finalized and initialized again without tripping an assertion.
C8_Witness ==
    /\ last.op = "loadTipsyFile" /\ m_bInitialized /\ fault = "none"
    /\ m_numBodies = 1 /\ m_numDevices = 2

\* C9: right after an update the indices are the swapped indices the update
\* found, and one more update brings back the indices the first one found.
C9_UpdateSwapsOnce ==
    last.op = "update" =>
        /\ m_currentRead = last.write
        /\ m_currentWrite = last.read
        /\ \A newPos \in Data, newVel \in Data :
              LET again == update(World, newPos, newVel)
              IN  /\ again.m_currentRead = last.read
                  /\ again.m_currentWrite = last.write

\* An update on two devices that found read = 1, write = 0.
C9_Witness ==
    /\ last.op = "update" /\ last.read = 1 /\ last.write = 0
    /\ m_numDevices = 2 /\ m_currentRead = 0

\* C10: from construction on, the two indices are in {0,1} and differ, and
\* setArray of either array leaves read = 0 and write = 1.
C10_IndicesComplementary ==
    pc # "new" =>
        /\ m_currentRead \in {0, 1}
        /\ m_currentWrite \in {0, 1}
        /\ m_currentRead # m_currentWrite
        /\ last.op = "setArray" => (m_currentRead = 0 /\ m_currentWrite = 1)

\* setArray(Velocity) issued when the indices were read = 1, write = 0.
C10_Witness ==
    /\ last.op = "setArray" /\ last.array = BODYSYSTEM_VELOCITY
    /\ last.read = 1 /\ last.write = 0
    /\ m_currentRead = 0 /\ m_currentWrite = 1

(***************************************************************************)
(* Properties of the empty configurations, checked under EdgeSpec.         *)
(***************************************************************************)
\* C11: with no device or no body, construction and every later operation
\* complete without an error, no slot is assigned a body, and no slot outside
\* 0..deviceCount-1 is read or written.
C11_EmptySystemIsNoOp ==
    (pc # "new" /\ (m_numDevices = 0 \/ m_numBodies = 0)) =>
        /\ fault = "none"
        /\ stray = {}
        /\ badUse = {}
        /\ \A i \in Slots : m_deviceData[i].numBodies = 0

(***************************************************************************)
(* Further properties of the lifecycle, checked under Spec.                *)
(***************************************************************************)
\* C12: once initialize has completed, every slot 0..deviceCount-1 holds an
\* event of its own that was created and is live, in every memory mode, with
\* or without peer sharing.
C12_EverySlotHoldsItsEvent ==
    m_bInitialized =>
        \A i \in Slots :
            /\ m_deviceData[i].event = <<"event", i>>
            /\ res[<<"event", i>>] = "held"

\* C13: a getArray of either array issued directly after initialize, before
\* any setArray or update, returns zeros in every memory mode.
C13_InitializeZeroFills ==
    (last.op = "BodySystemCUDA" /\ m_bInitialized) =>
        \A array \in BodyArray, junk \in Data :
            getArrayData(World, array, junk) = 0

\* C14: a reload ends Initialized with the loaded body count, read index 0
\* and write index 1, and getArray then returns the loaded positions and the
\* loaded velocities.
C14_ReloadEndsLoaded ==
    last.op = "loadTipsyFile" =>
        /\ m_bInitialized
        /\ m_numBodies = last.count
        /\ m_currentRead = 0 /\ m_currentWrite = 1
        /\ \A junk \in Data :
              /\ getArrayData(World, BODYSYSTEM_POSITION, junk) = last.data
              /\ getArrayData(World, BODYSYSTEM_VELOCITY, junk) = last.vel

\* The place of resource r in the order seq, 0 when it is not in it.
Rank(seq, r) ==
    IF \E i \in 1..Len(seq) : seq[i] = r
    THEN CHOOSE i \in 1..Len(seq) : seq[i] = r
    ELSE 0
Both(a, b) ==
    /\ Rank(acquired, a) > 0 /\ Rank(acquired, b) > 0
    /\ Rank(released, a) > 0 /\ Rank(released, b) > 0
\* The resources other resources are built on: the slot table, which holds
\* the handles, and a render buffer, which its interop registration refers to.
DependsOn(b, a) ==
    \/ a = <<"deviceData", 0>> /\ b # a
    \/ a[1] = "pbo" /\ b[1] = "gres" /\ a[2] = b[2]

\* C15, as claimed: whenever initialize acquired A before B, finalize
\* releases B before A.
C15_ReleasedInReverseOrder ==
    pc = "destroyed" =>
        \A a \in Resources, b \in Resources :
            (Both(a, b) /\ Rank(acquired, a) < Rank(acquired, b))
                => Rank(released, b) < Rank(released, a)

\* C15, amended: finalize releases a resource before the resource it is
\* built on (an interop registration before its render buffer, everything
\* before the slot table) and releases nothing twice; the host buffers are
\* released in the order of their acquisition, ahead of what was acquired
\* after them.
C15_DependentsReleasedFirst ==
    pc = "destroyed" =>
        /\ \A a \in Resources, b \in Resources :
              (Both(a, b) /\ DependsOn(b, a))
                  => /\ Rank(acquired, a) < Rank(acquired, b)
                     /\ Rank(released, b) < Rank(released, a)
        /\ \A i \in 1..Len(released), j \in 1..Len(released) :
              released[i] = released[j] => i = j
        /\ \A a \in Resources, b \in Resources :
              (/\ Both(a, b) /\ a[1] \in {"hPos", "hVel"}
               /\ Rank(acquired, a) < Rank(acquired, b))
                  => Rank(released, a) < Rank(released, b)

\* A destroyed RenderShared system: both registrations, both render buffers
\* and the slot table were released.
C15_Witness ==
    /\ pc = "destroyed" /\ RenderShared
    /\ Both(<<"pbo", 1>>, <<"gres", 1>>)
    /\ Both(<<"deviceData", 0>>, <<"hPos", 0>>)

(***************************************************************************)
(* Completion of the device work, checked under AsyncSpec.                 *)
(***************************************************************************)
\* C16: no getArray(Position) reads, or hands out, the position buffer an
\* update has written while a device that took part in that update has not
\* completed its work, in any memory mode.
C16_NoReadBeforeCompletion ==
    (last.op = "getArray" /\ last.array = BODYSYSTEM_POSITION) => pending = {}

(***************************************************************************)
(* Render-shared buffers and peer sharing.                                 *)
(***************************************************************************)
\* The calls of the last getArray that are of kind c on resource r.
CallsOf(c, r) == {k \in 1..Len(calls) : calls[k][1] = c /\ calls[k][2] = r}
ReadResource == <<"gres", last.read>>
ReadBuffer == <<"pbo", last.read>>

\* C17: in RenderShared mode getArray(Position) reads the render buffer of
\* the read index, and every such read lies between a map and the unmap of
\* the interop resource of the read index, the read-only flag being set
\* before the map; no resource is left mapped when getArray returns, and
\* getArray(Velocity) maps no resource.
C17_ReadsBracketedByMapUnmap ==
    /\ mapped = {}
    /\ (last.op = "getArray" /\ RenderShared) =>
          IF last.array = BODYSYSTEM_POSITION
          THEN /\ CallsOf("cudaMemcpy", ReadBuffer) # {}
               /\ \A k \in 1..Len(calls) :
                     calls[k][1] = "cudaMemcpy" =>
                        /\ calls[k][2] = ReadBuffer
                        /\ \E h \in CallsOf("cudaGraphicsResourceSetMapFlags", ReadResource),
                              i \in CallsOf("cudaGraphicsMapResources", ReadResource),
                              j \in CallsOf("cudaGraphicsUnmapResources", ReadResource) :
                                /\ h < i /\ i < k /\ k < j
                                /\ calls[h][3] = "cudaGraphicsMapFlagsReadOnly"
          ELSE \A k \in 1..Len(calls) : calls[k][1] = "cudaMemcpy"

\* getArray(Position) in RenderShared mode after an odd number of updates:
\* the resource of index 1 was mapped, read and unmapped.
C17_Witness ==
    /\ last.op = "getArray" /\ last.array = BODYSYSTEM_POSITION /\ RenderShared
    /\ last.read = 1 /\ Len(calls) = 4
    /\ calls[2] = <<"cudaGraphicsMapResources", <<"gres", 1>>, 0>>

Peers == 1..(m_numDevices - 1)
Accepted == {"cudaSuccess", "cudaErrorPeerAccessAlreadyEnabled"}

\* C18: in DeviceLocal mode with peer sharing, an initialize in which every
\* grant returned success or 'already enabled' ends Initialized with the
\* position and velocity handles of every peer being those of device 0; an
\* initialize in which a grant returned any other code stops the process,
\* which is not and never becomes Initialized.
C18_PeerGrantOutcome ==
    (pc = "live" /\ DeviceLocal /\ m_bUseP2P) =>
        IF \A i \in Peers : grants[i] \in Accepted
        THEN /\ m_bInitialized /\ fault = "none"
             /\ \A i \in Peers :
                   /\ m_deviceData[i].dPos = [k \in 0..1 |-> <<"dPos", k>>]
                   /\ m_deviceData[i].dPos = m_deviceData[0].dPos
                   /\ m_deviceData[i].dVel = <<"dVel", 0>>
                   /\ m_deviceData[i].dVel = m_deviceData[0].dVel
        ELSE ~m_bInitialized /\ fault = "checkCudaErrors"

\* A reload on two devices: the grant reported 'already enabled' and the
\* system is Initialized again.
C18_Witness ==
    /\ last.op = "loadTipsyFile" /\ DeviceLocal /\ m_bUseP2P /\ m_numDevices = 2
    /\ grants[1] = "cudaErrorPeerAccessAlreadyEnabled"
    /\ m_bInitialized
    /\ m_deviceData[1].dVel = <<"dVel", 0>>

\* A first grant that was refused: the process stopped before Initialized.
C18_WitnessRefused ==
    /\ DeviceLocal /\ m_bUseP2P /\ m_numDevices = 2
    /\ grants[1] = "cudaErrorPeerAccessUnsupported"
    /\ ~m_bInitialized /\ fault = "checkCudaErrors"

(***************************************************************************)
(* Frame of setArray and the flag combinations, checked under Spec.        *)
(***************************************************************************)
\* C19: setArray(Velocity, V) leaves the positions a getArray(Position)
\* returns as they were right before it, whatever the buffer indices were.
C19_SetVelocityKeepsPositions ==
    (last.op = "setArray" /\ last.array = BODYSYSTEM_VELOCITY) =>
        \A junk \in Data :
            getArrayData(World, BODYSYSTEM_POSITION, junk) = last.seen

\* C20: under every combination of usePBO and useSysMem, the buffer a
\* setArray(Position) writes is a live buffer that the preceding initialize
\* acquired, and a getArray(Position) reads the data back from it.
C20_FlagsSelectOneStrategy ==
    (last.op = "setArray" /\ last.array = BODYSYSTEM_POSITION) =>
        /\ SetDestination(World, BODYSYSTEM_POSITION) \in Buffers
        /\ res[SetDestination(World, BODYSYSTEM_POSITION)] = "held"
        /\ Rank(acquired, SetDestination(World, BODYSYSTEM_POSITION)) > 0
        /\ \A junk \in Data :
              getArrayData(World, BODYSYSTEM_POSITION, junk) = last.data

====
